---- MODULE Spec2Model ----
(***************************************************************************)
(* Model of core/opengate_core/g4_bindings/pyG4VProcess.cpp.               *)
(*                                                                         *)
(* The unit is one function, init_G4VProcess(py::module &m), whose body is *)
(* one statement: the construction of                                      *)
(*   py::class_<G4VProcess, std::unique_ptr<G4VProcess, py::nodelete>>     *)
(*       (m, "G4VProcess")                                                 *)
(* The state is the type table of the module m (the attributes of m, each  *)
(* type entry carrying the type information the binding layer keeps for    *)
(* it, in registration order), the status of the module load that runs the *)
(* binding units, and the native G4VProcess objects with the binding-side  *)
(* references to them.                                                     *)
(***************************************************************************)
EXTENDS Naturals, Sequences, FiniteSets

VARIABLES
  table,     \* the type table of module m: a sequence of entries, in registration order
  status,    \* the module load: "loading", "loaded" or "faulted"
  insts,     \* the native process objects and their binding-side references
  calls,     \* how many times init_G4VProcess has been entered
  attempts,  \* how many registrations init_G4VProcess has performed
  last       \* the last binding unit that ran, and whether its registration succeeded

vars == <<table, status, insts, calls, attempts, last>>

(***************************************************************************)
(* Bounds and the finite sets the inputs are drawn from.                   *)
(***************************************************************************)
MaxInst == 1

InstIds == 1..MaxInst

\* The native classes derived from G4VProcess that other binding units expose.
Subclasses == {"G4StepLimiter", "G4UserSpecialCuts"}

\* Holder types a registration can declare: the default holder
\* std::unique_ptr<T>, std::unique_ptr<T, py::nodelete>, std::shared_ptr<T>.
Holders == {"unique_ptr", "unique_ptr_nodelete", "shared_ptr"}

NoBase == "-"

\* What an attribute of m is bound to when it is not a bound native class.
PlainObject == "object"

(***************************************************************************)
(* The registration statement of init_G4VProcess, argument by argument.    *)
(***************************************************************************)
\* First template argument: the native class that is bound.
G4VProcessType == "G4VProcess"

\* The name of another binding file's class left in place of this one's.
G4VProcessName_Pasted == "G4StepLimiter"

\* Second constructor argument: the name in m.
G4VProcessName == "G4VProcess"

\* The holder argument left out: the default holder, which deletes.
G4VProcessHolder_Omitted == "unique_ptr"

\* A shared holder, which deletes with the last reference.
G4VProcessHolder_Shared == "shared_ptr"

\* A holder that depends on what m already holds.
G4VProcessHolder_ByContents ==
  IF table = << >> THEN "unique_ptr_nodelete" ELSE "shared_ptr"

\* Second template argument: std::unique_ptr<G4VProcess, py::nodelete>.
G4VProcessHolder == "unique_ptr_nodelete"

\* No further template argument: the registration declares no base class.
G4VProcessBase == NoBase

\* A default constructor declared on the registration.
G4VProcessHasInit_Declared == TRUE

\* The class_ object is a temporary on which nothing is called: no
\* .def(py::init<>()), no method, no attribute.
G4VProcessHasInit == FALSE

NativeTypes == {G4VProcessType} \cup Subclasses

Names == NativeTypes

(***************************************************************************)
(* The binding layer's class_ constructor, as the statement uses it.       *)
(***************************************************************************)
Entry(name, type, holder, base, hasInit) ==
  [name |-> name, obj |-> type, holder |-> holder, base |-> base, init |-> hasInit]

Indices(tbl) == 1..Len(tbl)

HasName(tbl, name) == \E k \in Indices(tbl) : tbl[k].name = name

IsRegistered(tbl, type) == \E k \in Indices(tbl) : tbl[k].obj = type

TypeInfo(tbl, type) == tbl[CHOOSE k \in Indices(tbl) : tbl[k].obj = type]

\* std::unique_ptr<T> is the default holder; every other holder is not.
IsDefaultHolder(holder) == holder = "unique_ptr"

\* The deleter of py::nodelete does nothing; the other holders delete the
\* object they own when they are destroyed.
HolderDeletes(holder) == holder # "unique_ptr_nodelete"

\* The constructor without the look-up of the declared base: a base that is
\* not registered is accepted.
class_NoBaseLookup(tbl, name, type, holder, base, hasInit) ==
  IF HasName(tbl, name)
    THEN [ok |-> FALSE, tbl |-> tbl]
  ELSE IF IsRegistered(tbl, type)
    THEN [ok |-> FALSE, tbl |-> tbl]
  ELSE [ok |-> TRUE, tbl |-> Append(tbl, Entry(name, type, holder, base, hasInit))]

\* The constructor faults (throws) when a declared base is unknown or its
\* holder kind differs, when m already has an attribute of that name, or when
\* the native type is already registered; it changes nothing then. Otherwise
\* the new type is added to m under the name.
class_(tbl, name, type, holder, base, hasInit) ==
  IF base # NoBase /\ ~IsRegistered(tbl, base)
    THEN [ok |-> FALSE, tbl |-> tbl]
  ELSE IF base # NoBase
          /\ IsDefaultHolder(holder) # IsDefaultHolder(TypeInfo(tbl, base).holder)
    THEN [ok |-> FALSE, tbl |-> tbl]
  ELSE IF HasName(tbl, name)
    THEN [ok |-> FALSE, tbl |-> tbl]
  ELSE IF IsRegistered(tbl, type)
    THEN [ok |-> FALSE, tbl |-> tbl]
  ELSE [ok |-> TRUE, tbl |-> Append(tbl, Entry(name, type, holder, base, hasInit))]

(***************************************************************************)
(* init_G4VProcess                                                         *)
(***************************************************************************)
\* The fault caught inside the unit: the load goes on.
AfterRegistration_Caught(ok) == "loading"

\* The registration tried again after a fault.
RegistrationsPerCall_Retry(ok) == IF ok THEN 1 ELSE 2

\* The body has no try/catch: a fault of the registration leaves the function
\* and ends the module load.
AfterRegistration(ok) == IF ok THEN "loading" ELSE "faulted"

\* The body holds one registration statement, outside any loop.
RegistrationsPerCall(ok) == 1

init_G4VProcess ==
  /\ status = "loading"
  /\ LET r == class_(table, G4VProcessName, G4VProcessType, G4VProcessHolder,
                     G4VProcessBase, G4VProcessHasInit)
     IN /\ table' = r.tbl
        /\ status' = AfterRegistration(r.ok)
        /\ attempts' = attempts + RegistrationsPerCall(r.ok)
        /\ last' = [unit |-> "init_G4VProcess", type |-> G4VProcessType,
                    base |-> G4VProcessBase, ok |-> r.ok]
  /\ calls' = calls + 1
  /\ UNCHANGED insts

(***************************************************************************)
(* The other binding units of the module and the end of the load.          *)
(***************************************************************************)
\* A binding unit that registers a native subclass under its own name, with
\* or without declaring G4VProcess as its base.
init_Subclass(type, holder, declaresBase, hasInit) ==
  /\ status = "loading"
  /\ LET base == IF declaresBase THEN "G4VProcess" ELSE NoBase
         r == class_(table, type, type, holder, base, hasInit)
     IN /\ table' = r.tbl
        /\ status' = IF r.ok THEN "loading" ELSE "faulted"
        /\ last' = [unit |-> "init_Subclass", type |-> type, base |-> base, ok |-> r.ok]
  /\ UNCHANGED <<insts, calls, attempts>>

\* A binding unit that gives m an attribute that is not a bound class.
init_Other(name) ==
  /\ status = "loading"
  /\ ~HasName(table, name)
  /\ table' = Append(table, Entry(name, PlainObject, "-", NoBase, FALSE))
  /\ last' = [unit |-> "init_Other", type |-> PlainObject, base |-> NoBase, ok |-> TRUE]
  /\ UNCHANGED <<status, insts, calls, attempts>>

\* The module load ends without a fault.
FinishLoad ==
  /\ status = "loading"
  /\ status' = "loaded"
  /\ UNCHANGED <<table, insts, calls, attempts, last>>

(***************************************************************************)
(* Native objects and the binding-side references to them.                 *)
(***************************************************************************)
NoInst ==
  [st |-> "none", dyn |-> "-", origin |-> "-", pytype |-> "-",
   wrapped |-> FALSE, owned |-> FALSE, freedBy |-> "-"]

\* The native library creates a process object; G4VProcess is abstract, so
\* its dynamic type is a subclass.
NativeCreate(i, t) ==
  /\ insts[i].st = "none"
  /\ insts' = [insts EXCEPT ![i] = [NoInst EXCEPT !.st = "live", !.dyn = t,
                                                  !.origin = "native"]]
  /\ UNCHANGED <<table, status, calls, attempts, last>>

\* The native library ends the lifetime of a process object.
NativeDestroy(i) ==
  /\ insts[i].st = "live"
  /\ insts' = [insts EXCEPT ![i].st = "freed", ![i].freedBy = "native"]
  /\ UNCHANGED <<table, status, calls, attempts, last>>

\* A bound function returns a G4VProcess* to the script: the object is
\* exposed under the registration of its dynamic type when that type is
\* registered, and under the registration of G4VProcess otherwise. The
\* return value policy decides whether the reference holds the object
\* through the registration's holder.
Expose(i, owned) ==
  /\ status = "loaded"
  /\ insts[i].st = "live"
  /\ insts[i].pytype = "-"
  /\ IsRegistered(table, insts[i].dyn) \/ IsRegistered(table, "G4VProcess")
  /\ insts' = [insts EXCEPT
        ![i].pytype = IF IsRegistered(table, insts[i].dyn)
                        THEN insts[i].dyn ELSE "G4VProcess",
        ![i].wrapped = TRUE,
        ![i].owned = owned]
  /\ UNCHANGED <<table, status, calls, attempts, last>>

\* The script calls a registered type: possible only when its registration
\* declares a constructor.
ScriptConstruct(i, t) ==
  /\ status = "loaded"
  /\ insts[i].st = "none"
  /\ IsRegistered(table, t)
  /\ TypeInfo(table, t).init
  /\ insts' = [insts EXCEPT ![i] = [st |-> "live", dyn |-> t, origin |-> "script",
                                    pytype |-> t, wrapped |-> TRUE, owned |-> TRUE,
                                    freedBy |-> "-"]]
  /\ UNCHANGED <<table, status, calls, attempts, last>>

\* The binding-side reference is released: its holder is destroyed, and a
\* holder that deletes ends the lifetime of the object it owns. Deleting an
\* object the native library already deleted is undefined behaviour.
Release(i) ==
  /\ insts[i].wrapped
  /\ LET deletes == insts[i].owned
                    /\ HolderDeletes(TypeInfo(table, insts[i].pytype).holder)
     IN \/ /\ ~deletes
           /\ insts' = [insts EXCEPT ![i].wrapped = FALSE]
        \/ /\ deletes
           /\ insts[i].st = "live"
           /\ insts' = [insts EXCEPT ![i].wrapped = FALSE, ![i].st = "freed",
                                     ![i].freedBy = "binding"]
        \/ /\ deletes
           /\ insts[i].st = "freed"
           /\ \E outcome \in {"freed", "corrupt"} :
                insts' = [insts EXCEPT ![i].wrapped = FALSE, ![i].st = outcome]
  /\ UNCHANGED <<table, status, calls, attempts, last>>

\* The script's is-instance-of check of an object of Python type t against
\* G4VProcess.
IsInstanceOfG4VProcess(tbl, t) ==
  /\ IsRegistered(tbl, "G4VProcess")
  /\ IsRegistered(tbl, t)
  /\ t = "G4VProcess" \/ TypeInfo(tbl, t).base = "G4VProcess"

(***************************************************************************)
(* The specification.                                                      *)
(***************************************************************************)
Init ==
  /\ table = << >>
  /\ status = "loading"
  /\ insts = [i \in InstIds |-> NoInst]
  /\ calls = 0
  /\ attempts = 0
  /\ last = [unit |-> "none", type |-> "-", base |-> NoBase, ok |-> TRUE]

Next ==
  \/ init_G4VProcess
  \/ \E t \in Subclasses, h \in Holders, d \in BOOLEAN, c \in BOOLEAN :
        init_Subclass(t, h, d, c)
  \/ \E n \in Names : init_Other(n)
  \/ FinishLoad
  \/ \E i \in InstIds, t \in Subclasses : NativeCreate(i, t)
  \/ \E i \in InstIds : NativeDestroy(i)
  \/ \E i \in InstIds, o \in BOOLEAN : Expose(i, o)
  \/ \E i \in InstIds, t \in NativeTypes : ScriptConstruct(i, t)
  \/ \E i \in InstIds : Release(i)

Spec == Init /\ [][Next]_vars

TypeOK ==
  /\ status \in {"loading", "loaded", "faulted"}
  /\ calls \in Nat
  /\ attempts \in Nat
  /\ \A k \in Indices(table) : table[k].name \in Names

(***************************************************************************)
(* Properties.                                                             *)
(***************************************************************************)
CountName(tbl, name) == Cardinality({k \in Indices(tbl) : tbl[k].name = name})

CountType(tbl, type) == Cardinality({k \in Indices(tbl) : tbl[k].obj = type})

\* A step of init_G4VProcess.
InitStep == calls' = calls + 1

\* A step of a binding unit that registers a subclass declaring G4VProcess
\* as its base, with holder h.
SubclassStep(t, h) == \E c \in BOOLEAN : init_Subclass(t, h, TRUE, c)

\* C1: when the type table of m does not contain the name "G4VProcess", an
\* execution of init_G4VProcess adds exactly one entry to it, named
\* "G4VProcess" and bound to the native class G4VProcess; and after a
\* module load that ran init_G4VProcess the name "G4VProcess" appears in the
\* table exactly once, bound to that class.
C1_RegistersOneEntry ==
  /\ [][ (InitStep /\ ~HasName(table, "G4VProcess"))
           => /\ Len(table') = Len(table) + 1
              /\ SubSeq(table', 1, Len(table)) = table
              /\ table'[Len(table')].name = "G4VProcess"
              /\ table'[Len(table')].obj = "G4VProcess" ]_vars
  /\ []((status = "loaded" /\ calls >= 1)
           => /\ CountName(table, "G4VProcess") = 1
              /\ \A k \in Indices(table) :
                   table[k].name = "G4VProcess" => table[k].obj = "G4VProcess")

C1_Witness ==
  /\ status = "loaded"
  /\ calls = 1
  /\ CountName(table, "G4VProcess") = 1
  /\ Len(table) >= 2

\* C2: G4VProcess is registered with the no-delete holder, and no object
\* exposed through the registration of G4VProcess is ever deallocated by the
\* binding layer: releasing its binding-side reference leaves it alive, and
\* only the native library ends its lifetime.
C2_NeverDeallocatedByBinding ==
  /\ IsRegistered(table, "G4VProcess")
       => TypeInfo(table, "G4VProcess").holder = "unique_ptr_nodelete"
  /\ \A i \in InstIds :
       insts[i].pytype = "G4VProcess"
         => /\ insts[i].freedBy \in {"-", "native"}
            /\ insts[i].st \in {"live", "freed"}
            /\ (insts[i].st = "freed" <=> insts[i].freedBy = "native")

C2_Witness ==
  \E i \in InstIds :
    /\ insts[i].pytype = "G4VProcess"
    /\ insts[i].owned
    /\ ~insts[i].wrapped
    /\ insts[i].st = "live"

C4_OneShot ==
  /\ attempts = calls
  /\ CountName(table, "G4VProcess") <= 1
  /\ (status = "loaded" /\ calls >= 1) => attempts = 1

C4_Witness ==
  /\ status = "faulted"
  /\ last.unit = "init_G4VProcess"
  /\ calls = 2
  /\ attempts = 2

\* C5: when the name "G4VProcess" or the native type is already registered,
\* an execution of init_G4VProcess changes nothing in the table and leaves
\* the module load faulted; a faulted load never resumes; and the table
\* never holds two entries for the type or for the name.
C5_ConflictIsFatal ==
  /\ [][ (InitStep /\ (HasName(table, "G4VProcess")
                        \/ IsRegistered(table, "G4VProcess")))
           => /\ status' = "faulted"
              /\ table' = table ]_vars
  /\ [][ status = "faulted" => (status' = "faulted" /\ table' = table) ]_vars
  /\ [](/\ CountType(table, "G4VProcess") <= 1
        /\ CountName(table, "G4VProcess") <= 1)

C5_Witness ==
  /\ status = "faulted"
  /\ last.unit = "init_G4VProcess"
  /\ ~last.ok
  /\ CountType(table, "G4VProcess") = 1

\* C6: an execution of init_G4VProcess leaves every native object and every
\* binding-side reference as it was; the registration declares no
\* constructor, so no object whose script-side type is G4VProcess was
\* constructed from the script.
C6_NoInstanceTouched ==
  /\ [][ InitStep => insts' = insts ]_vars
  /\ [](IsRegistered(table, "G4VProcess") => ~TypeInfo(table, "G4VProcess").init)
  /\ [](\A i \in InstIds :
          ~(insts[i].origin = "script" /\ insts[i].pytype = "G4VProcess"))

C6_Witness ==
  /\ last.unit = "init_G4VProcess"
  /\ last.ok
  /\ \E i \in InstIds : insts[i].st = "live"

\* C7: a registration of a subclass that declares G4VProcess as its base
\* while G4VProcess is absent from the table faults and registers nothing;
\* every entry whose base is G4VProcess comes after the entry of G4VProcess,
\* and only then is the subclass an instance of G4VProcess for the script.
C7_BaseBeforeSubclass ==
  /\ [][ \A t \in Subclasses, h \in Holders :
           (SubclassStep(t, h) /\ ~IsRegistered(table, "G4VProcess"))
             => /\ status' = "faulted"
                /\ table' = table ]_vars
  /\ [](\A k \in Indices(table) :
          table[k].base = "G4VProcess"
            => \E j \in 1..(k - 1) : table[j].obj = "G4VProcess")
  /\ [](\A t \in Subclasses :
          IsInstanceOfG4VProcess(table, t)
            => \E j, k \in Indices(table) :
                 /\ j < k
                 /\ table[j].obj = "G4VProcess"
                 /\ table[k].obj = t)

C7_Witness ==
  /\ status = "faulted"
  /\ last.unit = "init_Subclass"
  /\ last.base = "G4VProcess"
  /\ ~last.ok
  /\ ~IsRegistered(table, "G4VProcess")
  /\ Len(table) >= 1

\* C8: whatever the table of m held before, an execution of init_G4VProcess
\* either faults and leaves the table as it was, or appends one and the same
\* entry: name "G4VProcess", native class G4VProcess, no-delete holder, no
\* base, no constructor.
C8_SameEffectEveryCall ==
  [][ InitStep
        => \/ table' = table
           \/ table' = Append(table,
                 [name |-> "G4VProcess", obj |-> "G4VProcess",
                  holder |-> "unique_ptr_nodelete", base |-> "-",
                  init |-> FALSE]) ]_vars

C8_Witness ==
  /\ last.unit = "init_G4VProcess"
  /\ last.ok
  /\ Len(table) >= 3
  /\ table[1].obj # "G4VProcess"
====
